---- MODULE Spec2Model ----
(***************************************************************************)
(* Model of ISV_APP.py: the soil-moisture dry-spell index (ISV) engine.    *)
(*                                                                         *)
(* Moisture readings are fixed-point integers in thousandths (0.360 is     *)
(* 360).  A numeric cell is a record [nan, v]; a date cell after           *)
(* pd.to_datetime is a record [nat, ano, mes, dia, hora].  A dataframe is  *)
(* a sequence of rows; every row keeps its pandas index label in idx.      *)
(* The float column ISV (line 68) is a function of nver, dmax and dver of  *)
(* the same row and is not carried in the modelled result rows.            *)
(***************************************************************************)
EXTENDS Integers, Sequences, FiniteSets, TLC

VARIABLES
    umidade_limite,      \* sidebar slider, line 131 (thousandths)
    dias_consecutivos,   \* sidebar slider, line 132
    planilhas,           \* the uploaded workbook: sequence of sheets, line 138
    pc,                  \* position of the script
    k,                   \* index of the sheet being processed, line 99
    df,                  \* dataframe returned by agrupar_por_data, line 83
    eventos,             \* list returned by detectar_eventos_baixa_umidade, line 85
    resultados,          \* list of per-sheet result tables, line 98
    resultados_isv,      \* the table handed to the UI, line 140
    entrada,             \* argument of the function under test (function-level specifications)
    saida                \* its return value

vars == <<umidade_limite, dias_consecutivos, planilhas, pc, k, df, eventos,
          resultados, resultados_isv, entrada, saida>>

----------------------------------------------------------------------------
(* Bounds of the model *)

\* longest free sheet of the uploaded workbooks
MaxRows == 4

\* longest moisture series handed to event detection on its own
MaxLen == 9

----------------------------------------------------------------------------
(* Program constants *)

\* umidade_limite=0.360, hard-coded in calcula_isv_por_ano_periodo
LimiteFixo == 360

\* dias_consecutivos=4, hard-coded in calcula_isv_por_ano_periodo
DiasFixo == 4

\* default of the umidade_limite slider
LimiteSliderPadrao == 360

\* default of the dias_consecutivos slider
DiasSliderPadrao == 4

Range(f) == {f[i] : i \in 1..Len(f)}

profundidades == <<20, 40, 60>>

periodos == <<"Seco", "Umido">>

----------------------------------------------------------------------------
(* Cells *)

NaN == [nan |-> TRUE, v |-> 0]

Num(n) == [nan |-> FALSE, v |-> n]

NaT == [nat |-> TRUE, ano |-> 0, mes |-> 0, dia |-> 0, hora |-> 0]

Timestamp(a, m, d, h) == [nat |-> FALSE, ano |-> a, mes |-> m, dia |-> d, hora |-> h]

\* a raw date cell as read from the sheet: the fields of its text
Cel(a, m, d, h) == [ano |-> a, mes |-> m, dia |-> d, hora |-> h]

----------------------------------------------------------------------------
(* Calendar arithmetic behind pandas Timestamp / Timedelta *)

IsLeap(a) == (a % 4 = 0 /\ a % 100 # 0) \/ a % 400 = 0

DaysInMonth(a, m) ==
    IF m = 2 THEN (IF IsLeap(a) THEN 29 ELSE 28)
    ELSE IF m \in {4, 6, 9, 11} THEN 30 ELSE 31

DaysBeforeMonth(a, m) ==
    <<0, 31, 59, 90, 120, 151, 181, 212, 243, 273, 304, 334>>[m]
      + (IF m > 2 /\ IsLeap(a) THEN 1 ELSE 0)

\* proleptic Gregorian ordinal of a valid timestamp
Ordinal(t) ==
    LET y == t.ano - 1
    IN  y * 365 + (y \div 4) - (y \div 100) + (y \div 400)
          + DaysBeforeMonth(t.ano, t.mes) + t.dia

\* pd.to_datetime(..., errors='coerce'): an unparseable cell becomes NaT
to_datetime(c) ==
    IF /\ c.mes \in 1..12
       /\ c.dia \in 1..DaysInMonth(c.ano, c.mes)
       /\ c.hora \in 0..23
    THEN Timestamp(c.ano, c.mes, c.dia, c.hora)
    ELSE NaT

\* .dt.normalize(): midnight of the same day; NaT stays NaT
normalize(t) == IF t.nat THEN NaT ELSE Timestamp(t.ano, t.mes, t.dia, 0)

\* .dt.month and .dt.year: NaN on NaT
dt_month(t) == IF t.nat THEN NaN ELSE Num(t.mes)

dt_year(t) == IF t.nat THEN NaN ELSE Num(t.ano)

\* Series.isin: NaN is in no list of integers
isin(c, S) == ~c.nan /\ c.v \in S

----------------------------------------------------------------------------
(* agrupar_por_data *)

PeriodoDe(mes) == IF isin(mes, {10, 11, 12, 1, 2, 3}) THEN "Umido" ELSE "Seco"

\* a slip of the month list: March left in the current cycle year
AnoRefDeSemMarco(mes, ano) ==
    IF isin(mes, {1, 2})
    THEN (IF ano.nan THEN NaN ELSE Num(ano.v - 1))
    ELSE ano

AnoRefDe(mes, ano) ==
    IF isin(mes, {1, 2, 3})
    THEN (IF ano.nan THEN NaN ELSE Num(ano.v - 1))
    ELSE ano

\* one row of the returned frame; i is the row's index label, U its depth columns
AgruparLinha(i, linha) ==
    LET data == normalize(to_datetime(linha.Data))
        mes  == dt_month(data)
        ano  == dt_year(data)
    IN  [idx |-> i, Data |-> data, Mes |-> mes, Ano |-> ano,
         Periodo |-> PeriodoDe(mes), AnoRef |-> AnoRefDe(mes, ano), U |-> linha.U]

\* a frame is [columns |-> the depths whose U column exists, linhas |-> its rows];
\* a sheet row is [Data |-> raw cell, U |-> [columns -> cell]]
agrupar_por_data(d) ==
    [columns |-> d.columns,
     linhas  |-> [i \in 1..Len(d.linhas) |-> AgruparLinha(i, d.linhas[i])]]

----------------------------------------------------------------------------
(* detectar_eventos_baixa_umidade *)

\* df_periodo[u_col] < umidade_limite: a comparison with NaN is False
Evento(linha, prof, limite) == ~linha.U[prof].nan /\ linha.U[prof].v < limite

\* (Evento != Evento.shift()).cumsum() over the flags ev: the first row differs from
\* the shifted NaN, so the labels start at 1
RECURSIVE Consecutivo(_)
Consecutivo(ev) ==
    LET n == Len(ev)
    IN  IF n = 0 THEN <<>>
        ELSE IF n = 1 THEN <<1>>
        ELSE LET antes == Consecutivo(SubSeq(ev, 1, n - 1))
             IN  Append(antes, antes[n - 1] + (IF ev[n] # ev[n - 1] THEN 1 ELSE 0))

\* a slip of the length test: runs of exactly dias_consecutivos rows are dropped
GrupoFicaEstrito(ev, cons, g, dias) ==
    LET membros == {i \in 1..Len(ev) : cons[i] = g}
    IN  Cardinality(membros) > dias /\ \A i \in membros : ev[i]

\* the lambda of groupby('Consecutivo').filter, for the group of label g
GrupoFica(ev, cons, g, dias) ==
    LET membros == {i \in 1..Len(ev) : cons[i] = g}
    IN  Cardinality(membros) >= dias /\ \A i \in membros : ev[i]

\* df_periodo with its Evento and Consecutivo columns
Marcar(df_periodo, prof, ev, cons) ==
    [i \in 1..Len(df_periodo) |->
        [idx |-> df_periodo[i].idx, Data |-> df_periodo[i].Data,
         AnoRef |-> df_periodo[i].AnoRef, Periodo |-> df_periodo[i].Periodo,
         umidade |-> df_periodo[i].U[prof],
         Evento |-> ev[i], Consecutivo |-> cons[i]]]

\* body of the inner loop: the events frame of one depth and one period
EventosDoPeriodo(linhas, prof, periodo, limite, dias) ==
    LET df_periodo == SelectSeq(linhas, LAMBDA r : r.Periodo = periodo)
        ev   == [i \in 1..Len(df_periodo) |-> Evento(df_periodo[i], prof, limite)]
        cons == Consecutivo(ev)
        fica == {g \in Range(cons) : GrupoFica(ev, cons, g, dias)}
    IN  SelectSeq(Marcar(df_periodo, prof, ev, cons), LAMBDA r : r.Consecutivo \in fica)

\* for periodo in periodos: eventos.append((prof, periodo, eventos_ano_periodo))
EventosDaProfundidade(d, prof, limite, dias) ==
    [j \in 1..Len(periodos) |->
        [prof |-> prof, periodo |-> periodos[j],
         df_eventos |-> EventosDoPeriodo(d.linhas, prof, periodos[j], limite, dias)]]

\* a slip of the outer loop: a missing column ends the loop instead of skipping
RECURSIVE DetectarDesdeBreak(_, _, _, _)
DetectarDesdeBreak(d, p, limite, dias) ==
    IF p > Len(profundidades) THEN <<>>
    ELSE IF profundidades[p] \notin d.columns THEN <<>>
    ELSE EventosDaProfundidade(d, profundidades[p], limite, dias)
           \o DetectarDesdeBreak(d, p + 1, limite, dias)

\* for prof in profundidades, from position p on: a missing column is skipped
RECURSIVE DetectarDesde(_, _, _, _)
DetectarDesde(d, p, limite, dias) ==
    IF p > Len(profundidades) THEN <<>>
    ELSE IF profundidades[p] \notin d.columns
         THEN DetectarDesde(d, p + 1, limite, dias)
         ELSE EventosDaProfundidade(d, profundidades[p], limite, dias)
                \o DetectarDesde(d, p + 1, limite, dias)

detectar_eventos_baixa_umidade(d, limite, dias) == DetectarDesde(d, 1, limite, dias)

----------------------------------------------------------------------------
(* calcular_isv *)

\* df_eventos.empty
Vazio(df_eventos) == Len(df_eventos) = 0

SetMax(S) == CHOOSE x \in S : \A y \in S : y <= x

SetMin(S) == CHOOSE x \in S : \A y \in S : x <= y

\* (df_eventos['Data'].max() - df_eventos['Data'].min()).days: max and min skip
\* NaT; with no valid date the difference is NaT and its .days is NaN
DMax(df_eventos) ==
    LET ords == {Ordinal(df_eventos[i].Data) :
                   i \in {j \in 1..Len(df_eventos) : ~df_eventos[j].Data.nat}}
    IN  IF ords = {} THEN NaN ELSE Num(SetMax(ords) - SetMin(ords))

\* the dictionary appended for one non-empty events frame
LinhaISV(e) ==
    [Ano |-> IF Vazio(e.df_eventos) THEN NaN ELSE e.df_eventos[1].AnoRef,
     Profundidade |-> e.prof,
     Periodo |-> e.periodo,
     nver |-> Cardinality({e.df_eventos[i].Consecutivo : i \in 1..Len(e.df_eventos)}),
     dmax |-> DMax(e.df_eventos),
     dver |-> Len(e.df_eventos)]

\* a slip of the guard: empty events frames are reduced as well
PulaNunca(e) == FALSE

\* if df_eventos.empty: continue
Pula(e) == Vazio(e.df_eventos)

calcular_isv(evs) ==
    LET usados == SelectSeq(evs, LAMBDA e : ~Pula(e))
    IN  [j \in 1..Len(usados) |-> LinhaISV(usados[j])]

----------------------------------------------------------------------------
(* calcula_isv_por_ano_periodo, calcula_isv_varias_planilhas *)

None == [none |-> TRUE, linhas |-> <<>>]

Tabela(l) == [none |-> FALSE, linhas |-> l]

\* resultado_isv['Origem'] = nome_df
ComOrigem(linhas, nome_df) ==
    [j \in 1..Len(linhas) |->
        [Origem |-> nome_df, Ano |-> linhas[j].Ano,
         Profundidade |-> linhas[j].Profundidade, Periodo |-> linhas[j].Periodo,
         nver |-> linhas[j].nver, dmax |-> linhas[j].dmax, dver |-> linhas[j].dver]]

\* lines 90-94: the tagged table, or None when it is empty
Retorno(resultado_isv, nome_df) ==
    IF Len(resultado_isv) > 0 THEN Tabela(ComOrigem(resultado_isv, nome_df)) ELSE None

calcula_isv_por_ano_periodo(d, nome_df) ==
    Retorno(calcular_isv(detectar_eventos_baixa_umidade(agrupar_por_data(d),
                                                        LimiteFixo, DiasFixo)),
            nome_df)

RECURSIVE Concat(_)
Concat(tabelas) ==
    IF Len(tabelas) = 0 THEN <<>> ELSE Head(tabelas).linhas \o Concat(Tail(tabelas))

\* lines 105-108: the concatenation, or None when no sheet gave a table
RetornoVarias(tabelas) == IF Len(tabelas) > 0 THEN Tabela(Concat(tabelas)) ELSE None

\* the loop of lines 99-103 from sheet i on: the tables that are not None
RECURSIVE TabelasDesde(_, _)
TabelasDesde(p, i) ==
    IF i > Len(p) THEN <<>>
    ELSE LET t == calcula_isv_por_ano_periodo(p[i].df, p[i].nome)
         IN  (IF t.none THEN <<>> ELSE <<t>>) \o TabelasDesde(p, i + 1)

calcula_isv_varias_planilhas(p) == RetornoVarias(TabelasDesde(p, 1))

----------------------------------------------------------------------------
(* Uploaded workbooks *)

Folha(nome, cols, linhas) == [nome |-> nome, df |-> [columns |-> cols, linhas |-> linhas]]

\* a row whose three sensors read v20, v40, v60, restricted to the columns present
Linha(data, cols, v20, v40, v60) ==
    [Data |-> data,
     U |-> [c \in cols |-> IF c = 20 THEN v20 ELSE IF c = 40 THEN v40 ELSE v60]]

\* dates of the free sheets: the last day of 2020 (with a time of day) and the first
\* day of the next wet season, both period Umido, cycle years 2020 and 2021
DatasLivres == {Cel(2020, 12, 31, 13), Cel(2021, 10, 1, 0)}

UmidadesLivres == {Num(300), Num(400)}

\* free sheets: every row order of up to MaxRows rows; U20 is free, U40 reads 0.300
\* throughout and U60 reads 0 throughout; any subset of the columns is present
LinhasLivres(cols) ==
    IF 20 \in cols
    THEN {Linha(dt, cols, v, Num(300), Num(0)) : dt \in DatasLivres, v \in UmidadesLivres}
    ELSE {Linha(dt, cols, NaN, Num(300), Num(0)) : dt \in DatasLivres}

FolhasLivres ==
    UNION {UNION {{Folha("A", cols, l) : l \in [1..n -> LinhasLivres(cols)]} :
                    n \in 0..MaxRows} :
             cols \in SUBSET {20, 40, 60}}

\* n daily rows from (a, m, d) on, within one month, U20 only
Diario(a, m, d, valores) ==
    [i \in 1..Len(valores) |-> Linha(Cel(a, m, d + i - 1, 0), {20}, Num(valores[i]), NaN, NaN)]

\* seven daily values from 2020-11-01 with one run of four days below 0.360
CenarioE2E == Folha("B", {20}, Diario(2020, 11, 1, <<400, 400, 300, 300, 300, 300, 400>>))

\* four dry days in November 2020 followed by four dry days in November 2021
CenarioDoisCiclos ==
    Folha("B", {20}, Diario(2020, 11, 1, <<300, 300, 300, 300>>)
                       \o Diario(2021, 11, 1, <<300, 300, 300, 300>>))

\* four days on which the sensor reads exactly 0
CenarioZeros == Folha("B", {20}, Diario(2021, 1, 10, <<0, 0, 0, 0>>))

\* three dry days of April 2021 and, between them, a row dated 2021-02-30
CenarioDataInvalida ==
    Folha("B", {20},
          <<Linha(Cel(2021, 4, 1, 0), {20}, Num(300), NaN, NaN),
            Linha(Cel(2021, 4, 2, 0), {20}, Num(300), NaN, NaN),
            Linha(Cel(2021, 2, 30, 0), {20}, Num(300), NaN, NaN),
            Linha(Cel(2021, 4, 3, 0), {20}, Num(300), NaN, NaN)>>)

\* four readings taken on the same day, six hours apart
CenarioMesmoDia ==
    Folha("B", {20},
          [i \in 1..4 |-> Linha(Cel(2021, 5, 5, 6 * (i - 1)), {20}, Num(300), NaN, NaN)])

Cenarios == {CenarioE2E, CenarioDoisCiclos, CenarioZeros, CenarioDataInvalida, CenarioMesmoDia}

\* workbooks: one scenario sheet, one free sheet, or a free sheet beside the
\* end-to-end sheet, in either order
Entradas ==
    {<<c>> : c \in Cenarios}
      \cup {<<f>> : f \in FolhasLivres}
      \cup {<<f, CenarioE2E>> : f \in FolhasLivres}

\* positions <<umidade_limite, dias_consecutivos>> of the two sliders the model
\* visits (ranges 0.0-1.0 and 1-10): the defaults, and a higher limit with shorter runs
PosicoesSliders == {<<360, 4>>, <<450, 2>>}

----------------------------------------------------------------------------
(* The script *)

Init ==
    /\ umidade_limite = LimiteSliderPadrao
    /\ dias_consecutivos = DiasSliderPadrao
    /\ planilhas = <<>>
    /\ pc = "aguardando"
    /\ k = 0
    /\ df = [columns |-> {}, linhas |-> <<>>]
    /\ eventos = <<>>
    /\ resultados = <<>>
    /\ resultados_isv = None
    /\ entrada = <<>>
    /\ saida = <<>>

\* the user moves the sidebar sliders before uploading
MoverSliders ==
    /\ pc = "aguardando"
    /\ \E s \in PosicoesSliders :
          /\ s # <<umidade_limite, dias_consecutivos>>
          /\ umidade_limite' = s[1]
          /\ dias_consecutivos' = s[2]
    /\ UNCHANGED <<planilhas, pc, k, df, eventos, resultados, resultados_isv, entrada, saida>>

\* a workbook is uploaded and parsed; calcula_isv_varias_planilhas starts
Upload ==
    /\ pc = "aguardando"
    /\ \E p \in Entradas : planilhas' = p
    /\ k' = 1
    /\ pc' = "planilha"
    /\ UNCHANGED <<umidade_limite, dias_consecutivos, df, eventos, resultados,
                   resultados_isv, entrada, saida>>

\* calcula_isv_por_ano_periodo, line 83
AgruparPorData ==
    /\ pc = "planilha"
    /\ k <= Len(planilhas)
    /\ df' = agrupar_por_data(planilhas[k].df)
    /\ pc' = "detectar"
    /\ UNCHANGED <<umidade_limite, dias_consecutivos, planilhas, k, eventos, resultados,
                   resultados_isv, entrada, saida>>

\* calcula_isv_por_ano_periodo, line 85
DetectarEventos ==
    /\ pc = "detectar"
    /\ eventos' = detectar_eventos_baixa_umidade(df, LimiteFixo, DiasFixo)
    /\ pc' = "calcular"
    /\ UNCHANGED <<umidade_limite, dias_consecutivos, planilhas, k, df, resultados,
                   resultados_isv, entrada, saida>>

\* calcula_isv_por_ano_periodo, lines 88-94, and the loop body of lines 100-103
CalcularISV ==
    /\ pc = "calcular"
    /\ LET resultado_isv == Retorno(calcular_isv(eventos), planilhas[k].nome)
       IN  resultados' = IF resultado_isv.none THEN resultados
                         ELSE Append(resultados, resultado_isv)
    /\ k' = k + 1
    /\ pc' = "planilha"
    /\ UNCHANGED <<umidade_limite, dias_consecutivos, planilhas, df, eventos,
                   resultados_isv, entrada, saida>>

\* calcula_isv_varias_planilhas, lines 105-108, and the assignment of line 140
Concatenar ==
    /\ pc = "planilha"
    /\ k > Len(planilhas)
    /\ resultados_isv' = RetornoVarias(resultados)
    /\ pc' = "fim"
    /\ UNCHANGED <<umidade_limite, dias_consecutivos, planilhas, k, df, eventos,
                   resultados, entrada, saida>>

Next ==
    \/ MoverSliders
    \/ Upload
    \/ AgruparPorData
    \/ DetectarEventos
    \/ CalcularISV
    \/ Concatenar

Spec == Init /\ [][Next]_vars

----------------------------------------------------------------------------
(* agrupar_por_data on its own, over a sweep of the calendar *)

\* date cells of three years, one of them a leap year, with and without a time of
\* day; days 29 to 31 do not exist in every month
CelsCalendario ==
    {Cel(a, m, d, h) : a \in 2019..2021, m \in 1..12, d \in {1, 15, 28, 29, 30, 31}, h \in {0, 13}}

InitClassificar ==
    /\ umidade_limite = LimiteSliderPadrao
    /\ dias_consecutivos = DiasSliderPadrao
    /\ planilhas = <<>>
    /\ pc = "classificar"
    /\ k = 0
    /\ df = [columns |-> {}, linhas |-> <<>>]
    /\ eventos = <<>>
    /\ resultados = <<>>
    /\ resultados_isv = None
    /\ \E c \in CelsCalendario :
          entrada = [columns |-> {}, linhas |-> <<Linha(c, {}, NaN, NaN, NaN)>>]
    /\ saida = <<>>

ClassificarFn ==
    /\ pc = "classificar"
    /\ saida' = agrupar_por_data(entrada)
    /\ pc' = "classificado"
    /\ UNCHANGED <<umidade_limite, dias_consecutivos, planilhas, k, df, eventos,
                   resultados, resultados_isv, entrada>>

NextClassificar == ClassificarFn

SpecClassificar == InitClassificar /\ [][NextClassificar]_vars

----------------------------------------------------------------------------
(* detectar_eventos_baixa_umidade on its own, over every short series *)

\* thresholds and minimum run lengths tried; 0.300 makes a reading of 0.300 not below
LimitesTestados == {300, 360}

DiasTestados == {1, 2, 4, 5}

\* daily series of one depth lying in one period: January (Umido) or May (Seco) 2021
SeriesTestadas ==
    UNION {{Folha("S", {20}, Diario(2021, m, 1, vs)) : vs \in [1..n -> {300, 400}]} :
             n \in 0..MaxLen, m \in {1, 5}}

InitDetectar ==
    /\ umidade_limite = LimiteSliderPadrao
    /\ dias_consecutivos = DiasSliderPadrao
    /\ planilhas = <<>>
    /\ pc = "detectar_fn"
    /\ k = 0
    /\ df = [columns |-> {}, linhas |-> <<>>]
    /\ eventos = <<>>
    /\ resultados = <<>>
    /\ resultados_isv = None
    /\ \E f \in SeriesTestadas, l \in LimitesTestados, d \in DiasTestados :
          entrada = [df |-> agrupar_por_data(f.df), limite |-> l, dias |-> d]
    /\ saida = <<>>

DetectarFn ==
    /\ pc = "detectar_fn"
    /\ saida' = detectar_eventos_baixa_umidade(entrada.df, entrada.limite, entrada.dias)
    /\ pc' = "detectado"
    /\ UNCHANGED <<umidade_limite, dias_consecutivos, planilhas, k, df, eventos,
                   resultados, resultados_isv, entrada>>

NextDetectar == DetectarFn

SpecDetectar == InitDetectar /\ [][NextDetectar]_vars

----------------------------------------------------------------------------
(* Vocabulary of the properties *)

\* the events of an events frame are its Consecutivo labels
Rotulos(df_eventos) == {df_eventos[i].Consecutivo : i \in 1..Len(df_eventos)}

\* number of records of the event labelled g
TamanhoEvento(df_eventos, g) ==
    Cardinality({i \in 1..Len(df_eventos) : df_eventos[i].Consecutivo = g})

MaiorEvento(df_eventos) == SetMax({TamanhoEvento(df_eventos, g) : g \in Rotulos(df_eventos)})

RECURSIVE SomaTamanhos(_, _)
SomaTamanhos(df_eventos, S) ==
    IF S = {} THEN 0
    ELSE LET g == CHOOSE x \in S : TRUE
         IN  TamanhoEvento(df_eventos, g) + SomaTamanhos(df_eventos, S \ {g})

\* the sheet whose events frames are in eventos has just been reduced
FolhaCalculada == pc = "planilha" /\ k > 1

\* result rows collected so far for the sheet called nome, depth prof, period periodo
LinhasColetadas(nome, prof, periodo) ==
    {r \in Range(Concat(resultados)) :
        r.Origem = nome /\ r.Profundidade = prof /\ r.Periodo = periodo}

\* rows of the final table for the sheet called nome
LinhasFinais(nome) == SelectSeq(resultados_isv.linhas, LAMBDA r : r.Origem = nome)

----------------------------------------------------------------------------
(* C1 *)

\* C1: every row with a valid date gets one (AnoRef, Periodo): months 1-3 give Umido
\* and the calendar year minus one, months 10-12 give Umido and the calendar year,
\* months 4-9 give Seco and the calendar year.
C1_Classificacao ==
    pc = "classificado" =>
      \A i \in 1..Len(saida.linhas) :
        LET c == entrada.linhas[i].Data
            r == saida.linhas[i]
        IN  ~r.Data.nat =>
              /\ c.mes \in 1..3 => r.Periodo = "Umido" /\ r.AnoRef = Num(c.ano - 1)
              /\ c.mes \in 10..12 => r.Periodo = "Umido" /\ r.AnoRef = Num(c.ano)
              /\ c.mes \in 4..9 => r.Periodo = "Seco" /\ r.AnoRef = Num(c.ano)
              /\ c.mes \in 1..12

\* a March date has been classified into the wet period of the previous year
C1_Witness ==
    /\ pc = "classificado"
    /\ entrada.linhas[1].Data = Cel(2020, 3, 31, 13)
    /\ saida.linhas[1].Data = Timestamp(2020, 3, 31, 0)
    /\ saida.linhas[1].Periodo = "Umido"
    /\ saida.linhas[1].AnoRef = Num(2019)

----------------------------------------------------------------------------
(* C2 *)

\* the reading of row i of the sequence s is below the threshold
Abaixo(s, i, limite) == ~s[i].U[20].nan /\ s[i].U[20].v < limite

\* positions a..b of s are a maximal run of adjacent below-threshold records
CorridaMaximal(s, a, b, limite) ==
    /\ a <= b
    /\ \A i \in a..b : Abaixo(s, i, limite)
    /\ a = 1 \/ ~Abaixo(s, a - 1, limite)
    /\ b = Len(s) \/ ~Abaixo(s, b + 1, limite)

\* index labels of the records of s lying in a maximal run of at least dias records
Qualificados(s, limite, dias) ==
    {s[i].idx : i \in {j \in 1..Len(s) :
                         \E a \in 1..j, b \in j..Len(s) :
                            CorridaMaximal(s, a, b, limite) /\ b - a + 1 >= dias}}

\* C2: for the sequence of records of one depth and period, the rows retained are
\* exactly the rows of the maximal runs of adjacent below-threshold records of
\* length >= dias_consecutivos, each once and in the order of the sequence.
C2_CorridasRetidas ==
    pc = "detectado" =>
      /\ Len(saida) = Len(periodos)
      /\ \A e \in Range(saida) :
            LET s == SelectSeq(entrada.df.linhas, LAMBDA r : r.Periodo = e.periodo)
                q == Qualificados(s, entrada.limite, entrada.dias)
            IN  /\ e.prof = 20
                /\ {e.df_eventos[i].idx : i \in 1..Len(e.df_eventos)} = q
                /\ Len(e.df_eventos) = Cardinality(q)
                /\ \A i, j \in 1..Len(e.df_eventos) :
                      i < j => e.df_eventos[i].idx < e.df_eventos[j].idx

\* flags [0,1,1,1,1,0,1,1,0] with a minimum of 4: only the run of four is retained
C2_Witness ==
    /\ pc = "detectado"
    /\ entrada.limite = 360
    /\ entrada.dias = 4
    /\ Len(entrada.df.linhas) = 9
    /\ \A i \in 1..9 :
          entrada.df.linhas[i].U[20] = Num(<<400, 300, 300, 300, 300, 400, 300, 300, 400>>[i])
    /\ entrada.df.linhas[1].Periodo = "Umido"
    /\ {saida[2].df_eventos[i].idx : i \in 1..Len(saida[2].df_eventos)} = {2, 3, 4, 5}
    /\ Len(saida[1].df_eventos) = 0

----------------------------------------------------------------------------
(* C3 *)

\* C3: in every result row nver is the number of qualifying events of the row's
\* partition, dmax the record count of the longest single qualifying event and dver
\* the sum of the event lengths; the end-to-end sheet gives nver=1, dmax=4, dver=4.
C3_NverDmaxDver ==
    /\ FolhaCalculada =>
         \A e \in Range(eventos) :
           \A r \in LinhasColetadas(planilhas[k - 1].nome, e.prof, e.periodo) :
              /\ r.nver = Cardinality(Rotulos(e.df_eventos))
              /\ r.dmax = Num(MaiorEvento(e.df_eventos))
              /\ r.dver = SomaTamanhos(e.df_eventos, Rotulos(e.df_eventos))
    /\ (pc = "fim" /\ planilhas = <<CenarioE2E>>) =>
         /\ Len(resultados_isv.linhas) = 1
         /\ resultados_isv.linhas[1].nver = 1
         /\ resultados_isv.linhas[1].dmax = Num(4)
         /\ resultados_isv.linhas[1].dver = 4

----------------------------------------------------------------------------
(* C4 *)

\* C4: detection and reduction are done per (site, depth, cycle year, period): no run
\* joins records of different AnoRef, every result row is computed only from records
\* of the AnoRef it is tagged with, and a sheet with qualifying events in two cycle
\* years of the same period yields one row per cycle year.
C4_PorAnoRef ==
    /\ \A e \in Range(eventos) :
         \A i, j \in 1..Len(e.df_eventos) :
            e.df_eventos[i].AnoRef = e.df_eventos[j].AnoRef
    /\ (pc = "fim" /\ planilhas = <<CenarioDoisCiclos>>) =>
         /\ Len(resultados_isv.linhas) = 2
         /\ resultados_isv.linhas[1].Ano # resultados_isv.linhas[2].Ano

----------------------------------------------------------------------------
(* C5 *)

\* the group (depth prof, period periodo) of frame d has at least one daily record
TemRegistros(d, prof, periodo) ==
    \E i \in 1..Len(d.linhas) : d.linhas[i].Periodo = periodo /\ ~d.linhas[i].U[prof].nan

----------------------------------------------------------------------------
(* C6 *)

\* C6: a reading of exactly 0 is missing data: it is never flagged as below the
\* threshold and never a day of an event.
C6_ZeroAusente ==
    \A e \in Range(eventos) :
      \A i \in 1..Len(e.df_eventos) : e.df_eventos[i].umidade # Num(0)

----------------------------------------------------------------------------
(* C7 *)

\* C7: a row whose date failed to parse is in no period's sequence and is counted in
\* no event.
C7_DataInvalidaFora ==
    \A e \in Range(eventos) :
      \A i \in 1..Len(e.df_eventos) : ~e.df_eventos[i].Data.nat

----------------------------------------------------------------------------
(* C8 *)

\* C8: readings of one calendar date are collapsed into one daily record, so a date
\* appears at most once in the frame handed to detection and the length of an event
\* counts distinct days.
C8_UmRegistroPorDia ==
    /\ pc = "detectar" =>
         \A i, j \in 1..Len(df.linhas) :
            (i # j /\ ~df.linhas[i].Data.nat) => df.linhas[i].Data # df.linhas[j].Data
    /\ \A e \in Range(eventos) :
         \A g \in Rotulos(e.df_eventos) :
            TamanhoEvento(e.df_eventos, g) =
              Cardinality({e.df_eventos[i].Data :
                             i \in {j \in 1..Len(e.df_eventos) :
                                      e.df_eventos[j].Consecutivo = g}})

----------------------------------------------------------------------------
(* C9 *)

\* frame d with the column of depth prof added, reading v in every row
ComColuna(d, prof, v) ==
    [columns |-> d.columns \cup {prof},
     linhas  |-> [i \in 1..Len(d.linhas) |->
                    [Data |-> d.linhas[i].Data,
                     U |-> [c \in d.columns \cup {prof} |->
                              IF c = prof THEN v ELSE d.linhas[i].U[c]]]]]

\* C9: a sheet lacking a depth column gives no row for that depth, the run ends
\* normally, the sheet's other rows are those the same sheet gives with the column
\* present, and the rows of every other sheet are those that sheet gives by itself.
C9_ColunaAusente ==
    pc = "fim" =>
      \A n \in 1..Len(planilhas) :
        \A prof \in Range(profundidades) \ planilhas[n].df.columns :
          /\ \A r \in Range(resultados_isv.linhas) :
                ~(r.Origem = planilhas[n].nome /\ r.Profundidade = prof)
          /\ \A v \in UmidadesLivres :
                SelectSeq(calcula_isv_por_ano_periodo(
                              ComColuna(planilhas[n].df, prof, v), planilhas[n].nome).linhas,
                          LAMBDA r : r.Profundidade # prof)
                  = LinhasFinais(planilhas[n].nome)
          /\ \A m \in 1..Len(planilhas) \ {n} :
                calcula_isv_por_ano_periodo(planilhas[m].df, planilhas[m].nome).linhas
                  = LinhasFinais(planilhas[m].nome)

\* a run has ended on a workbook one of whose sheets lacks a depth column while the
\* table holds a row of another depth of that sheet and a row of another sheet
C9_Witness ==
    /\ pc = "fim"
    /\ \E n \in 1..Len(planilhas) :
          /\ Range(profundidades) \ planilhas[n].df.columns # {}
          /\ \E r \in Range(resultados_isv.linhas) : r.Origem = planilhas[n].nome
          /\ \E r \in Range(resultados_isv.linhas) : r.Origem # planilhas[n].nome

----------------------------------------------------------------------------
(* C10 *)

\* C10: event detection in a batch run uses the threshold and the minimum run length
\* the caller configured.
C10_UsaConfiguracao ==
    pc = "calcular" =>
      eventos = detectar_eventos_baixa_umidade(df, umidade_limite, dias_consecutivos)

====
